---- MODULE Spec2Model ----
(***************************************************************************)
(* Drag protocol and frame loop of the ThreeScene component                *)
(* (src/src/components/ThreeScene.js) over the helpers of threeHelpers.js  *)
(* (src/unnamed/part_001).                                                 *)
(*                                                                         *)
(* Space is one axis (height above the floor) in whole units; velocities   *)
(* are the vertical component in units of 0.1 m/s and saturate at MaxVel   *)
(* (MaxVel stands for "MaxVel or faster"); angular velocity is in units of *)
(* 0.1 rad/s and is either 0 (no spin) or 3 (spinning).  The physics of    *)
(* world.step is the library's; it is abstracted to what the handlers can  *)
(* observe: integration of awake bodies, the pull of registered           *)
(* constraints, damping, the sleep policy, the sub-step accumulator and    *)
(* the lookup of contact rules by material.  Orientation is not a value    *)
(* of the model: a frame records the meshes it left behind their bodies,   *)
(* and the pivot of a drag is computed for every orientation.              *)
(***************************************************************************)
EXTENDS Integers, FiniteSets, Sequences, TLC

(* ------------------------------ bounds -------------------------------- *)
\* heights 0..MaxPoint
MaxPoint == 1
\* saturation of the tracked velocity
MaxVel == 1
\* constraints registered in the world at one time
MaxConstraints == 2
\* fixed steps by which a slow frame's time exceeds the sub-step cap
MaxBacklog == 1

(* ------------------------- program constants -------------------------- *)
\* physicsObjects: initPhysics creates four cubes, and the code singles out
\* only the first of them (physicsObjects[0] in handleTouchEnd, i === 0 in
\* animate); the model keeps the first cube and one of the other three
NumCubes == 2
\* body.sleepSpeedLimit = 0.1 m/s
SleepSpeedLimit == 1
\* handlePointerDown: CANNON.Vec3(0, 0.1, 0) on a mobile user agent
PointerNudge == 1
\* handleTouchStart: CANNON.Vec3(0, 0.2, 0)
TouchNudge == 2
\* initPhysics: randomImpulse y component 5
InitialImpulse == 50
\* createCube: mass: 1
CubeMass == 1
\* animate: angularVelocity.lengthSquared() > 0.05, in units of 0.01
RotationSyncLimit == 5
\* orientations: quarter turns about a horizontal axis
Turns == 4
\* animate: const maxSubSteps = 4
MobileMaxSubSteps == 4
\* World.step and World.fixedStep: maxSubSteps = 10 when not passed
DefaultMaxSubSteps == 10
\* the fixed time step dt (1/45 s on mobile, 1/60 s on desktop): the unit of
\* the model's time
TimeStep == 1
\* handleTouchEnd: y component 1 + Math.random(), in [1, 2): its two ends
ReleaseImpulse == {10, 19}

Cubes == 1 .. NumCubes
\* ids of the two static bodies in world.bodies (the cubes are 1 .. NumCubes)
FloorId == NumCubes + 1
JointId == NumCubes + 2
Points == 0 .. MaxPoint
NoHit == -1
AWAKE == "AWAKE"
SLEEPY == "SLEEPY"
SLEEPING == "SLEEPING"

VARIABLES
  isMobile,            \* isMobileDevice(): fixed by the user agent
  isDragging,          \* let isDragging
  jointConstraint,     \* let jointConstraint: 0 is null, else a constraint id
  constraints,         \* world.constraints: records [id, bodyA, bodyB]
  jointBody,           \* the zero-mass anchor body: [position]
  body,                \* physicsObjects[i].body, i in Cubes
  mesh,                \* physicsObjects[i].mesh: [position, quaternion]
  clickMarkerVisible,  \* clickMarker.visible
  bodies,              \* world.bodies: the ids of the bodies in the world
  floor,               \* the floor body
  frameRequested,      \* a requestAnimationFrame(animate) callback is pending
  accumulator,         \* world.accumulator, in fixed time steps
  mounted,             \* the effect is set up and its cleanup has not run
  last,                \* history: the handler that ran last and its inputs
  rt                   \* history: progress of a beginDrag;updateDrag;endDrag run

vars == <<isMobile, isDragging, jointConstraint, constraints,
          jointBody, body, mesh, clickMarkerVisible, bodies, floor,
          frameRequested, accumulator, mounted, last, rt>>

\* what no event handler touches: the user agent, the floor, the meshes,
\* the frame loop
loopVars == <<isMobile, floor, mesh, frameRequested, accumulator, mounted>>

Min(a, b) == IF a < b THEN a ELSE b
Max(a, b) == IF a > b THEN a ELSE b

AngVels == {0, 3}
Vels == 0 .. MaxVel
Ids == 1 .. MaxConstraints

(* ------------------------------ bodies -------------------------------- *)
\* Body.wakeUp(): sleepState = AWAKE
wakeUp(b) == [b EXCEPT !.sleepState = AWAKE]

\* Body.applyImpulse as in the library before it woke sleeping bodies
applyImpulse_asleep(b, impulse, torque) ==
  IF b.mass = 0 THEN b
  ELSE [b EXCEPT !.velocity = Min(b.velocity + impulse, MaxVel),
                 !.angularVelocity = Max(b.angularVelocity, torque)]

\* Body.applyImpulse(impulse, point) of the library that has
\* world.fixedStep: nothing on a body that is not dynamic (mass 0); a
\* sleeping body is woken; the impulse times the inverse mass (1) adds to
\* the velocity; the point the callers pass (body.position) gives a torque
\* that depends on the untracked horizontal position, so `torque` is an
\* input.
applyImpulse(b, impulse, torque) ==
  IF b.mass = 0 THEN b
  ELSE [b EXCEPT !.velocity = Min(b.velocity + impulse, MaxVel),
                 !.angularVelocity = Max(b.angularVelocity, torque),
                 !.sleepState = IF b.sleepState = SLEEPING THEN AWAKE
                                ELSE b.sleepState]

(* ------------------------ materials and rules ------------------------ *)
\* new CANNON.Material(name): every material object takes the next value of
\* Material.idCounter.  The World constructor makes the first one (its
\* default material), createPhysicsWorld the next two, createFloor the
\* fourth, and each createCube one more.
Material(id, name) == [id |-> id, name |-> name]
\* Body.material of a body built without one
NoMaterial == [id |-> -1, name |-> "none"]
DefaultMaterialId == 0
CubeMaterialId == 1
FloorMaterialId == 2
FloorBodyMaterialId == 3
cubeMaterial == Material(CubeMaterialId, "cube")
floorMaterial == Material(FloorMaterialId, "floor")

\* friction and restitution in tenths
defaultContactMaterial == [friction |-> 7, restitution |-> 2]
cubeFloorContactMaterial == [friction |-> 8, restitution |-> 1]
cubeCubeContactMaterial == [friction |-> 4, restitution |-> 3]

\* a table key that keeps the order of the two ids
Key_ordered(i, j) == <<i, j>>

\* the key of the world's contact material table (TupleDictionary): the
\* two material ids, smaller first
Key(i, j) == IF i > j THEN <<j, i>> ELSE <<i, j>>

\* new CANNON.ContactMaterial(m1, m2, options) as world.addContactMaterial
\* files it: under the ids of its two materials
ContactMaterial(m1, m2, options) ==
  [key |-> Key(m1.id, m2.id), materials |-> {m1, m2}, rule |-> options]

\* createPhysicsWorld: the default rule and the two registered pair rules
createPhysicsWorld ==
  [defaultContactMaterial |-> defaultContactMaterial,
   contactmaterials |->
     {ContactMaterial(cubeMaterial, floorMaterial, cubeFloorContactMaterial),
      ContactMaterial(cubeMaterial, cubeMaterial, cubeCubeContactMaterial)}]

\* the rule the table holds for two materials
Registered(world, m1, m2) ==
  {cm \in world.contactmaterials : cm.key = Key(m1.id, m2.id)}

\* World.getContactMaterial(m1, m2) || defaultContactMaterial: the lookup
\* is by the ids of the two material objects
getContactMaterial(world, m1, m2) ==
  IF Registered(world, m1, m2) # {}
  THEN (CHOOSE cm \in Registered(world, m1, m2) : TRUE).rule
  ELSE world.defaultContactMaterial

\* the rule a contact between bodies bi and bj is resolved with: the
\* world's lookup when both bodies have a material, else the default
contactRule(world, bi, bj) ==
  IF bi.material # NoMaterial /\ bj.material # NoMaterial
  THEN getContactMaterial(world, bi.material, bj.material)
  ELSE world.defaultContactMaterial

\* the body createCube builds at `position` as the index-th cube: new
\* CANNON.Body({mass: 1, position, material: new CANNON.Material("cube")})
newCube(position, index) ==
  [mass |-> CubeMass, position |-> position, velocity |-> 0,
   angularVelocity |-> 0, sleepState |-> AWAKE,
   material |-> Material(FloorBodyMaterialId + index, "cube")]

\* createCube + initPhysics: a dynamic body in the air, woken, with the
\* initial random impulse applied
createCube(index, torque) ==
  applyImpulse(wakeUp(newCube(MaxPoint, index)), InitialImpulse, torque)

\* the mesh createCube builds: cube.position.copy(position).  Orientation
\* is not tracked as a value: a frame records the meshes whose quaternion it
\* left behind their body's (see animate).
newMesh(position) == [position |-> position]

\* a position that is not a number
NaN == "NaN"

\* createCube(scene, world, position, color, size) called on the world as
\* it is: whether it raised, the body it built and world.bodies after it.
\* The function tests nothing: it builds the body and calls world.addBody.
createCubeIn(position) ==
  [raised |-> FALSE, body |-> newCube(position, NumCubes + 1),
   bodies |-> bodies \cup {JointId + 1}]

\* createJointBody with a dynamic body
createJointBody_dynamic ==
  [id |-> JointId, mass |-> 1, position |-> 0, velocity |-> 0,
   angularVelocity |-> 0, sleepState |-> AWAKE, material |-> NoMaterial]

\* createJointBody: mass 0, collides with nothing, at the origin (the sleep
\* state of the two static bodies is not tracked)
createJointBody ==
  [id |-> JointId, mass |-> 0, position |-> 0, velocity |-> 0,
   angularVelocity |-> 0, sleepState |-> AWAKE, material |-> NoMaterial]

\* createFloor(scene, world, 50, 50, 0): mass 0, at height 0, with its own
\* new CANNON.Material("floor")
createFloor ==
  [id |-> FloorId, mass |-> 0, position |-> 0, velocity |-> 0,
   angularVelocity |-> 0, sleepState |-> AWAKE,
   material |-> Material(FloorBodyMaterialId, "floor")]

(* --------------------------- drag helpers ----------------------------- *)
\* addJointConstraint: the joint body moves to the hit point and a new
\* PointToPointConstraint(constrainedBody, pivot, jointBody) is registered
jointBodyAt(position) == [jointBody EXCEPT !.position = position]

\* new CANNON.PointToPointConstraint: an object distinct from every
\* constraint the world holds (the smallest id not in use)
FreeIds == {k \in Ids : \A c \in constraints : c.id # k}
NewId == CHOOSE k \in FreeIds : \A j \in FreeIds : k <= j

\* addJointConstraint that creates an anchor body for every drag
addJointConstraint_newAnchor(position, constrainedBody) ==
  /\ FreeIds # {}
  /\ jointBody' = [jointBodyAt(position) EXCEPT !.id = JointId + NewId]
  /\ bodies' = bodies \cup {JointId + NewId}
  /\ constraints' = constraints \cup
       {[id |-> NewId, bodyA |-> constrainedBody, bodyB |-> JointId + NewId]}

\* Rotations by quarter turns about a horizontal axis, acting on offsets
\* <<up, sideways>>: Quaternion.inverse() and Quaternion.vmult(v)
inverse(q) == (Turns - q) % Turns
vmult(q, v) ==
  IF q % Turns = 0 THEN v
  ELSE IF q % Turns = 1 THEN <<0 - v[2], v[1]>>
  ELSE IF q % Turns = 2 THEN <<0 - v[1], 0 - v[2]>>
  ELSE <<v[2], 0 - v[1]>>

\* the pivot without the rotation into the body's frame
pivotOf_unrotated(position, b, quaternion) == <<position - b.position, 0>>

\* addJointConstraint: the vector from the body to the clicked point,
\* rotated into the local frame of the body, whose orientation is
\* `quaternion`
pivotOf(position, b, quaternion) ==
  vmult(inverse(quaternion), <<position - b.position, 0>>)

\* the world point of a pivot on body b: the body's position plus the
\* pivot rotated back, as <<height, sideways offset>>
worldPivot(b, quaternion, pivot) ==
  <<b.position + vmult(quaternion, pivot)[1], vmult(quaternion, pivot)[2]>>

\* addJointConstraint: the joint body is moved to the clicked point, the
\* constraint is created between the body (at pivotOf) and the joint body
\* (at its origin) and added to the world; the step of the model pulls the
\* body toward the joint body whatever the pivot, so the constraint record
\* does not carry it
addJointConstraint(position, constrainedBody) ==
  /\ FreeIds # {}
  /\ jointBody' = jointBodyAt(position)
  /\ bodies' = bodies
  /\ constraints' = constraints \cup
       {[id |-> NewId, bodyA |-> constrainedBody, bodyB |-> jointBody.id]}

\* moveJoint that updates the constraint without copying the position
moveJoint_stale(position) == jointBody

\* moveJoint: jointBody.position.copy(position); constraint.update()
moveJoint(position) == jointBodyAt(position)

\* removeJointConstraint: world.removeConstraint(constraint) when non-null
removeJointConstraint(constraint) ==
  IF constraint # 0 THEN {c \in constraints : c.id # constraint}
  ELSE constraints

\* the for-loop over physicsObjects with getHitPoint on each mesh: the
\* first cube the ray hits (0 when it hits none) and the hit point, a point
\* of that cube
CubeHit(selectedCube, hitPoint) ==
  IF selectedCube = 0 THEN hitPoint = NoHit
  ELSE /\ hitPoint \in Points
       /\ hitPoint - body[selectedCube].position \in {-1, 0, 1}

(* ------------------------------ world.step --------------------------- *)
\* a registered constraint whose bodyA is cube i
Held(i) == \E c \in constraints : c.bodyA = i

Toward(p, q) == IF p < q THEN p + 1 ELSE IF p > q THEN p - 1 ELSE p

Damp(v) == IF v > 0 THEN v - 1 ELSE 0

\* Body.integrate + solver for one body: a body of mass 0 (static) and a
\* sleeping body are skipped; another one moves one unit toward `target`
\* and its velocities are damped
integrate(b, target) ==
  LET pos == Toward(b.position, target)
      v == IF pos # b.position THEN Max(Damp(b.velocity), 1)
           ELSE Damp(b.velocity)
  IN IF b.mass = 0 \/ b.sleepState = SLEEPING THEN b
     ELSE [b EXCEPT !.position = pos, !.velocity = v,
                    !.angularVelocity = 0]

\* Body.integrate changes the quaternion of a body it integrates when the
\* body spins
Rotates(b) ==
  b.mass # 0 /\ b.sleepState # SLEEPING /\ b.angularVelocity # 0

\* cube i of `bs` is pulled toward the joint body when a constraint holds
\* it and falls toward the floor otherwise
Integrate(bs, i) ==
  integrate(bs[i], IF Held(i) THEN jointBody.position ELSE floor.position)

SpeedSquared(b) == b.velocity * b.velocity + b.angularVelocity * b.angularVelocity

\* Body.sleepTick with sleeping switched off (allowSleep = false)
sleepTick_disabled(b, elapsed) == b

\* Body.sleepTick; `elapsed` says whether sleepTimeLimit has passed since the
\* body became sleepy (time is not tracked: it is an input of the step)
sleepTick(b, elapsed) ==
  IF b.sleepState = AWAKE /\ SpeedSquared(b) < SleepSpeedLimit * SleepSpeedLimit
    THEN [b EXCEPT !.sleepState = SLEEPY]
  ELSE IF b.sleepState = SLEEPY
          /\ SpeedSquared(b) > SleepSpeedLimit * SleepSpeedLimit
    THEN wakeUp(b)
  ELSE IF b.sleepState = SLEEPY /\ elapsed
    THEN [b EXCEPT !.sleepState = SLEEPING, !.velocity = 0,
                   !.angularVelocity = 0]
  ELSE b

\* one fixed sub-step of the world over the cubes `bs`
internalStep(bs, elapsed) ==
  [i \in Cubes |-> sleepTick(Integrate(bs, i), elapsed[i])]

(* ------------------------------ history ------------------------------- *)
\* rt follows a run beginDrag(cube, P); updateDrag(P); endDrag() that starts
\* with no drag active, has no step in between and ends without a release
\* impulse on the cube; it keeps the cube's velocities from just before
\* beginDrag
RtNone == [phase |-> 0, cube |-> 0, velocity |-> 0, angularVelocity |-> 0]

RtBegin(sel) ==
  IF sel = 0 \/ isDragging THEN RtNone
  ELSE [phase |-> 1, cube |-> sel, velocity |-> body[sel].velocity,
        angularVelocity |-> body[sel].angularVelocity]

RtMove(hitPoint) ==
  IF rt.phase = 1 /\ isDragging /\ hitPoint = jointBody.position
  THEN [rt EXCEPT !.phase = 2] ELSE RtNone

\* `released` is the cube the release impulse goes to (0 when there is none)
RtEnd(released) ==
  IF rt.phase = 2 /\ isDragging /\ rt.cube # released
  THEN [rt EXCEPT !.phase = 3] ELSE RtNone

\* the cube the held handle constrains (0 when the handle is null)
HandleTarget ==
  IF \E c \in constraints : c.id = jointConstraint
  THEN (CHOOSE c \in constraints : c.id = jointConstraint).bodyA
  ELSE 0

\* last: the handler that ran last; whether a drag was active when it
\* started; the cube it acted on (the cube hit by a down/start, the target
\* of the drag an up/end closed); the world point an active move received;
\* the cube it applied an impulse to (0 when none); which of these cubes
\* were asleep when it started; for a frame, the failures it met, the
\* retries of the step, the internalStep calls that completed, the time
\* since the last call that its step added to the accumulator, whether a
\* failure left the callback and the cubes whose body the step turned
\* while the sync loop did not copy the quaternion to the mesh
Did(op, cube, point, receiver) ==
  [op |-> op, active |-> isDragging, cube |-> cube, point |-> point,
   receiver |-> receiver, failed |-> {}, retries |-> 0, steps |-> 0,
   delta |-> 0, escaped |-> FALSE, behind |-> {},
   asleep |-> {i \in {cube, receiver} \ {0} : body[i].sleepState = SLEEPING}]

DidBegin(op, sel, receiver) == Did(op, sel, NoHit, receiver)
DidMove(op, hitPoint) ==
  Did(op, 0, IF isDragging THEN hitPoint ELSE NoHit, 0)
DidEnd(op, receiver) == Did(op, HandleTarget, NoHit, receiver)
DidOther(op) == Did(op, 0, NoHit, 0)

(* ------------------------------ handlers ------------------------------ *)
Init ==
  /\ isMobile \in BOOLEAN
  /\ isDragging = FALSE
  /\ jointConstraint = 0
  /\ constraints = {}
  /\ jointBody = createJointBody
  /\ body \in [Cubes -> {createCube(i, t) : i \in Cubes, t \in AngVels}]
  /\ \A i \in Cubes : \E t \in AngVels : body[i] = createCube(i, t)
  /\ mesh = [i \in Cubes |-> newMesh(MaxPoint)]
  /\ clickMarkerVisible = FALSE
  /\ floor = createFloor
  /\ bodies = {floor.id} \cup Cubes \cup {jointBody.id}
  /\ frameRequested = TRUE
  /\ accumulator = 0
  /\ mounted = TRUE
  /\ last = [op |-> "init", active |-> FALSE, cube |-> 0, point |-> NoHit,
             receiver |-> 0, failed |-> {}, retries |-> 0, steps |-> 0,
             delta |-> 0, escaped |-> FALSE, behind |-> {},
             asleep |-> {}]
  /\ rt = RtNone

\* handlePointerDown applying the small impulse on every user agent
pointerDownBody_nudges(b, mobile, torque) ==
  applyImpulse(wakeUp(b), PointerNudge, torque)

\* handlePointerDown as in the earlier version of the component, which
\* attached the constraint without calling wakeUp
pointerDownBody_noWake(b, mobile, torque) ==
  IF mobile THEN applyImpulse_asleep(b, PointerNudge, torque) ELSE b

\* handlePointerDown on the selected body: wakeUp, then the small impulse
\* when isMobileDevice()
pointerDownBody(b, mobile, torque) ==
  IF mobile THEN applyImpulse(wakeUp(b), PointerNudge, torque)
  ELSE wakeUp(b)

\* handleTouchStart on the selected body: wakeUp, then the impulse
touchStartBody(b, torque) == applyImpulse(wakeUp(b), TouchNudge, torque)

\* window "pointerdown" listener, registered on a desktop user agent
handlePointerDown(sel, hitPoint) ==
  /\ mounted /\ ~isMobile
  /\ CubeHit(sel, hitPoint)
  /\ /\ IF sel = 0
        THEN UNCHANGED <<isDragging, jointConstraint, constraints,
                         jointBody, body, clickMarkerVisible, bodies>>
        ELSE /\ clickMarkerVisible' = TRUE
             /\ addJointConstraint(hitPoint, sel)
             /\ jointConstraint' = NewId
             /\ \E torque \in AngVels :
                  body' = [body EXCEPT ![sel] =
                            pointerDownBody(@, isMobile, torque)]
             /\ isDragging' = TRUE
     /\ last' = DidBegin("pointerdown", sel, IF isMobile THEN sel ELSE 0)
     /\ rt' = RtBegin(sel)
  /\ UNCHANGED loopVars

\* handlePointerMove without the isDragging test
handlePointerMove_unguarded(hitPoint) ==
  /\ mounted /\ ~isMobile
  /\ IF hitPoint # NoHit
     THEN jointBody' = moveJoint(hitPoint)
     ELSE UNCHANGED jointBody
  /\ last' = DidMove("pointermove", hitPoint)
  /\ rt' = RtMove(hitPoint)
  /\ UNCHANGED <<loopVars, isDragging, jointConstraint, constraints,
                 body, clickMarkerVisible, bodies>>

\* window "pointermove" listener
handlePointerMove(hitPoint) ==
  /\ mounted /\ ~isMobile
  /\ IF isDragging /\ hitPoint # NoHit
     THEN jointBody' = moveJoint(hitPoint)
     ELSE UNCHANGED jointBody
  /\ last' = DidMove("pointermove", hitPoint)
  /\ rt' = RtMove(hitPoint)
  /\ UNCHANGED <<loopVars, isDragging, jointConstraint, constraints,
                 body, clickMarkerVisible, bodies>>

\* handlePointerUp that leaves the handle as it is
handlePointerUp_keepsHandle ==
  /\ mounted /\ ~isMobile
  /\ IF ~isDragging
     THEN UNCHANGED <<isDragging, jointConstraint, constraints,
                      clickMarkerVisible>>
     ELSE /\ clickMarkerVisible' = FALSE
          /\ constraints' = removeJointConstraint(jointConstraint)
          /\ UNCHANGED jointConstraint
          /\ isDragging' = FALSE
  /\ last' = DidEnd("pointerup", 0)
  /\ rt' = RtEnd(0)
  /\ UNCHANGED <<loopVars, jointBody, body, bodies>>

\* window "pointerup" listener
handlePointerUp ==
  /\ mounted /\ ~isMobile
  /\ IF ~isDragging
     THEN UNCHANGED <<isDragging, jointConstraint, constraints,
                      clickMarkerVisible>>
     ELSE /\ clickMarkerVisible' = FALSE
          /\ constraints' = removeJointConstraint(jointConstraint)
          /\ jointConstraint' = 0
          /\ isDragging' = FALSE
  /\ last' = DidEnd("pointerup", 0)
  /\ rt' = RtEnd(0)
  /\ UNCHANGED <<loopVars, jointBody, body, bodies>>

\* a "pointercancel" event on a desktop user agent: no listener is registered
pointerCancel ==
  /\ mounted /\ ~isMobile
  /\ last' = DidOther("pointercancel")
  /\ rt' = RtNone
  /\ UNCHANGED <<loopVars, isDragging, jointConstraint, constraints,
                 jointBody, body, clickMarkerVisible, bodies>>

\* container "touchstart" listener, registered on a mobile user agent
handleTouchStart(sel, hitPoint, torque) ==
  /\ mounted /\ isMobile
  /\ CubeHit(sel, hitPoint)
  /\ /\ IF sel = 0
        THEN UNCHANGED <<isDragging, jointConstraint, constraints,
                         jointBody, body, clickMarkerVisible, bodies>>
        ELSE /\ clickMarkerVisible' = TRUE
             /\ addJointConstraint(hitPoint, sel)
             /\ jointConstraint' = NewId
             /\ body' = [body EXCEPT ![sel] = touchStartBody(@, torque)]
             /\ isDragging' = TRUE
     /\ last' = DidBegin("touchstart", sel, sel)
     /\ rt' = RtBegin(sel)
  /\ UNCHANGED loopVars

\* container "touchmove" listener
handleTouchMove(hitPoint) ==
  /\ mounted /\ isMobile
  /\ IF isDragging /\ hitPoint # NoHit
     THEN jointBody' = moveJoint(hitPoint)
     ELSE UNCHANGED jointBody
  /\ last' = DidMove("touchmove", hitPoint)
  /\ rt' = RtMove(hitPoint)
  /\ UNCHANGED <<loopVars, isDragging, jointConstraint, constraints,
                 body, clickMarkerVisible, bodies>>

\* the release impulse of handleTouchEnd: applied to physicsObjects[0].body
releaseBody == 1

\* the cube the release impulse of handleTouchEnd goes to (0 when the
\* handler applies none)
Released ==
  IF isDragging /\ jointConstraint # 0 /\ NumCubes > 0 THEN releaseBody
  ELSE 0

\* handleTouchEnd that leaves the click marker as it is
handleTouchEnd_markerStays(type, impulse, torque) ==
  /\ mounted /\ isMobile
  /\ IF ~isDragging
     THEN UNCHANGED <<isDragging, jointConstraint, constraints, body,
                      clickMarkerVisible>>
     ELSE /\ UNCHANGED clickMarkerVisible
          /\ IF jointConstraint # 0 /\ NumCubes > 0
             THEN body' = [body EXCEPT ![releaseBody] =
                             applyImpulse(@, impulse, torque)]
             ELSE UNCHANGED body
          /\ constraints' = removeJointConstraint(jointConstraint)
          /\ jointConstraint' = 0
          /\ isDragging' = FALSE
  /\ last' = DidEnd(type, Released)
  /\ rt' = RtEnd(Released)
  /\ UNCHANGED <<loopVars, jointBody, bodies>>

\* container "touchend" and "touchcancel" listener
handleTouchEnd(type, impulse, torque) ==
  /\ mounted /\ isMobile
  /\ IF ~isDragging
     THEN UNCHANGED <<isDragging, jointConstraint, constraints, body,
                      clickMarkerVisible>>
     ELSE /\ clickMarkerVisible' = FALSE
          /\ IF jointConstraint # 0 /\ NumCubes > 0
             THEN body' = [body EXCEPT ![releaseBody] =
                             applyImpulse(@, impulse, torque)]
             ELSE UNCHANGED body
          /\ constraints' = removeJointConstraint(jointConstraint)
          /\ jointConstraint' = 0
          /\ isDragging' = FALSE
  /\ last' = DidEnd(type, Released)
  /\ rt' = RtEnd(Released)
  /\ UNCHANGED <<loopVars, jointBody, bodies>>

\* the failures a frame can meet: world.step / world.fixedStep raises, and
\* the fallback world.step(timeStep, 0) raises too
Faults == {{"step"}, {"step", "fallback"}}

\* the time between two frame callbacks, in fixed steps (what is left of a
\* step is not tracked): none, one, and more than the sub-step cap allows
FrameDeltas ==
  {0, TimeStep} \cup
  {(DefaultMaxSubSteps + k) * TimeStep : k \in 1 .. MaxBacklog}

\* the catch-up loop of World.step with the accumulator at `acc`: the number
\* of internalStep calls, while (accumulator >= dt && substeps < maxSubSteps)
subSteps(acc, maxSubSteps) == Min(acc \div TimeStep, maxSubSteps)

\* World.step as in the library before it dropped the excess accumulator
worldStep_backlog(acc0, timeSinceLastCalled, maxSubSteps) ==
  LET acc == acc0 + timeSinceLastCalled
      n == subSteps(acc, maxSubSteps)
  IN [steps |-> n, accumulator |-> acc - n * TimeStep]

\* World.step(dt, timeSinceLastCalled, maxSubSteps): the time is added to
\* the accumulator, the loop takes whole steps up to maxSubSteps, and the
\* excess is dropped (accumulator = accumulator % dt)
worldStep(acc0, timeSinceLastCalled, maxSubSteps) ==
  LET acc == acc0 + timeSinceLastCalled
      n == subSteps(acc, maxSubSteps)
  IN [steps |-> n, accumulator |-> (acc - n * TimeStep) % TimeStep]

\* the cubes `bs` after `n` calls of internalStep; the sleep time limit (1 s)
\* is longer than the sub-steps of one frame, so it can have passed only
\* for a cube that has been sleepy since before the frame
RECURSIVE stepped(_, _, _)
stepped(bs, n, elapsed) ==
  IF n = 0 THEN bs
  ELSE stepped(internalStep(bs, elapsed), n - 1,
               [i \in Cubes |-> elapsed[i] /\ bs[i].sleepState = SLEEPY])

\* the sync loop's wake guard: on a mobile user agent, while dragging, the
\* first object is woken when it sleeps
wakeGuard(bs) ==
  [i \in Cubes |->
     IF isMobile /\ isDragging /\ i = 1 /\ bs[i].sleepState = SLEEPING
     THEN wakeUp(bs[i]) ELSE bs[i]]

\* the sync loop's condition for mesh.quaternion.copy(body.quaternion): a
\* desktop user agent, or a body that spins faster than the limit
quaternionCopied(b) ==
  ~isMobile \/ b.angularVelocity * b.angularVelocity > RotationSyncLimit

\* the sync loop of animate for one object: mesh.position.copy always
meshSync(m, b) == [m EXCEPT !.position = b.position]

\* the cubes whose body (b0 before, b1 after) `n` sub-steps turned and
\* whose mesh the sync loop left with the quaternion it had
leftBehind(b0, b1, n) ==
  {i \in Cubes : n > 0 /\ Rotates(b0[i]) /\ ~quaternionCopied(b1[i])}

\* the frame callback, `delta` after the previous one.  Mobile: try
\* world.step(timeStep, timeStep, 4), on a failure world.step(timeStep, 0);
\* desktop: world.fixedStep(), which passes the time since its last call.  A
\* step adds that time to the accumulator and then calls internalStep while
\* the accumulator holds a step, so a step that raised leaves its time in
\* the accumulator (a failed internalStep is taken to have changed no body,
\* and only an internalStep can raise).  Then the sync loop with the wake
\* guard, then requestAnimationFrame; a failure that is not caught leaves
\* the callback before both.
animate(elapsed, delta, fails) ==
  LET timeSinceLastCalled == IF isMobile THEN TimeStep ELSE delta
      acc == accumulator + timeSinceLastCalled
      first == worldStep(accumulator, timeSinceLastCalled,
                         IF isMobile THEN MobileMaxSubSteps
                                     ELSE DefaultMaxSubSteps)
      fallback == worldStep(acc, 0, DefaultMaxSubSteps)
      failed == IF isMobile THEN fails ELSE fails \cap {"step"}
      escaped == IF isMobile THEN "fallback" \in failed ELSE "step" \in failed
      retries == IF isMobile /\ "step" \in failed THEN 1 ELSE 0
      done == IF retries = 1 THEN fallback ELSE first
      n == IF escaped THEN 0 ELSE done.steps
  IN /\ frameRequested
     /\ isMobile => delta = TimeStep
     /\ fails # {} => first.steps > 0
     /\ \A i \in Cubes : body[i].sleepState # SLEEPY => elapsed[i]
     /\ last' = [DidOther("animate") EXCEPT !.failed = failed,
                                            !.retries = retries,
                                            !.steps = n,
                                            !.delta = timeSinceLastCalled,
                                            !.escaped = escaped,
                                            !.behind =
                                              leftBehind(
                                                body,
                                                stepped(body, n, elapsed),
                                                n)]
     /\ rt' = RtNone
     /\ accumulator' = IF escaped THEN acc ELSE done.accumulator
     /\ IF escaped
        THEN /\ UNCHANGED <<body, mesh, jointBody, floor>>
             /\ frameRequested' = FALSE
        ELSE /\ body' = wakeGuard(stepped(body, n, elapsed))
             /\ mesh' = [i \in Cubes |->
                           meshSync(mesh[i], stepped(body, n, elapsed)[i])]
             /\ jointBody' = integrate(jointBody, floor.position)
             /\ floor' = integrate(floor, floor.position)
             /\ frameRequested' = TRUE
     /\ UNCHANGED <<isMobile, isDragging, jointConstraint, constraints,
                    clickMarkerVisible, bodies, mounted>>

\* the effect's cleanup without cancelAnimationFrame
cleanup_noCancel ==
  /\ mounted
  /\ mounted' = FALSE
  /\ UNCHANGED frameRequested
  /\ constraints' = IF jointConstraint # 0
                     THEN removeJointConstraint(jointConstraint)
                     ELSE constraints
  /\ last' = DidOther("cleanup")
  /\ rt' = RtNone
  /\ UNCHANGED <<isMobile, isDragging, jointConstraint, jointBody, body,
                 mesh, clickMarkerVisible, bodies, floor, accumulator>>

\* the cleanup the effect returns, run when the component unmounts: the
\* listeners are removed (the container leaves the document, so that no
\* handler runs afterwards), the frame animationFrameId names, which is the
\* pending one, is cancelled, and the constraint of the held handle is
\* removed; the handle and the dragging flag are left as they are
cleanup ==
  /\ mounted
  /\ mounted' = FALSE
  /\ frameRequested' = FALSE
  /\ constraints' = IF jointConstraint # 0
                     THEN removeJointConstraint(jointConstraint)
                     ELSE constraints
  /\ last' = DidOther("cleanup")
  /\ rt' = RtNone
  /\ UNCHANGED <<isMobile, isDragging, jointConstraint, jointBody, body,
                 mesh, clickMarkerVisible, bodies, floor, accumulator>>

Next ==
  \/ \E sel \in Cubes \cup {0}, hitPoint \in Points \cup {NoHit} :
       handlePointerDown(sel, hitPoint)
  \/ \E hitPoint \in Points \cup {NoHit} : handlePointerMove(hitPoint)
  \/ handlePointerUp
  \/ pointerCancel
  \/ \E sel \in Cubes \cup {0}, hitPoint \in Points \cup {NoHit},
        torque \in AngVels : handleTouchStart(sel, hitPoint, torque)
  \/ \E hitPoint \in Points \cup {NoHit} : handleTouchMove(hitPoint)
  \/ \E type \in {"touchend", "touchcancel"}, impulse \in ReleaseImpulse,
        torque \in AngVels :
       handleTouchEnd(type, impulse, torque)
  \/ \E elapsed \in [Cubes -> BOOLEAN], delta \in FrameDeltas :
       animate(elapsed, delta, {})
  \/ cleanup

\* the program while no step of the world raises a failure
Spec == Init /\ [][Next]_vars

\* the frame loop runs: the browser calls the pending frame callback, and
\* the world's time passes the fixed step and the sleep time limit
FairSpec ==
  Spec /\ WF_vars(\E elapsed \in [Cubes -> {TRUE}] :
                    animate(elapsed, TimeStep, {}))

NextFault ==
  \/ Next
  \/ \E elapsed \in [Cubes -> BOOLEAN], delta \in FrameDeltas,
        fails \in Faults :
       animate(elapsed, delta, fails)

\* the program when a step of the world may raise a failure
FaultSpec == Init /\ [][NextFault]_vars

(* ------------------------------ claims -------------------------------- *)
BeginOps == {"pointerdown", "touchstart"}
MoveOps == {"pointermove", "touchmove"}
EndOps == {"pointerup", "touchend", "touchcancel"}

SameVelocity(i) ==
  /\ body'[i].velocity = body[i].velocity
  /\ body'[i].angularVelocity = body[i].angularVelocity

\* C1: a pointer-down or touch-start that hits a cube while a drag is
\* already active is a no-op: the world still holds one constraint, and the
\* held handle, the target of the drag and the anchor body's position are
\* unchanged.
C1_BeginWhileActiveIsNoOp ==
  [][(last'.op \in BeginOps /\ last'.cube # 0 /\ isDragging) =>
       /\ Cardinality(constraints') = 1
       /\ jointConstraint' = jointConstraint
       /\ HandleTarget' = HandleTarget
       /\ jointBody'.position = jointBody.position]_vars

\* C2: in every reachable state at most one drag constraint is registered
\* in the world.
C2_AtMostOneConstraint == Cardinality(constraints) <= 1

\* C3: right after a pointer-up or touch-end issued while a drag was active,
\* the world holds no drag constraint, the handle is null and the dragging
\* flag is false.
C3_EndDragClearsWorld ==
  (last.op \in EndOps /\ last.active) =>
    /\ constraints = {}
    /\ jointConstraint = 0
    /\ ~isDragging

\* C4: the release impulse of a touch-end that closes a drag goes to the
\* target of that drag, and the velocity of every other body is unchanged,
\* whichever cube was dragged.
C4_ReleaseImpulseOnTarget ==
  [][(last'.op \in {"touchend", "touchcancel"} /\ isDragging) =>
       /\ \A i \in Cubes \ {HandleTarget} : SameVelocity(i)
       /\ \E impulse \in ReleaseImpulse, torque \in AngVels :
            body'[HandleTarget] =
              applyImpulse(body[HandleTarget], impulse, torque)]_vars

\* C5 as claimed: on every input path, after beginDrag(cube, P);
\* updateDrag(P); endDrag() with no step in between, the cube's linear and
\* angular velocity equal their values just before beginDrag.
C5_RoundTripEveryPath ==
  rt.phase = 3 =>
    /\ body[rt.cube].velocity = rt.velocity
    /\ body[rt.cube].angularVelocity = rt.angularVelocity

\* C5 as amended: on the pointer path (a desktop user agent), after
\* pointer-down on a cube at P; pointer-move to P; pointer-up with no step
\* in between, the cube's linear and angular velocity equal their values
\* just before the pointer-down.
C5_RoundTripPointerPath ==
  (~isMobile /\ rt.phase = 3) =>
    /\ body[rt.cube].velocity = rt.velocity
    /\ body[rt.cube].angularVelocity = rt.angularVelocity

\* a pointer round trip has just completed on a cube that was moving
C5_Witness ==
  /\ ~isMobile
  /\ rt.phase = 3
  /\ last.op = "pointerup"
  /\ rt.velocity > 0

\* C6: a drag constraint never persists across gestures: when a pointer-down
\* or touch-start that hits a cube follows the pointer-up, touch-end or
\* cancel that closed the previous gesture, no constraint is registered in
\* the world when it runs.
C6_NoConstraintAcrossGestures ==
  [][(last.op \in EndOps \cup {"pointercancel"}
        /\ last'.op \in BeginOps /\ last'.cube # 0) =>
       constraints = {}]_vars

\* C7: a pointer-up or touch-end that closes a drag, followed immediately by
\* a pointer-down or touch-start on the same cube, registers a fresh
\* constraint: the handle is new, the world holds exactly one constraint and
\* the dragging flag is true.
C7_EndThenBeginIsFresh ==
  [][(last.op \in EndOps /\ last.active /\ last.cube # 0
        /\ last'.op \in BeginOps /\ last'.cube = last.cube) =>
       /\ jointConstraint' # 0
       /\ \A c \in constraints : c.id # jointConstraint'
       /\ Cardinality(constraints') = 1
       /\ HandleTarget' = last.cube
       /\ isDragging']_vars

\* C8: a pointer/touch move and a pointer-up, touch-end or touch-cancel
\* issued while no drag is active leave the constraint set, the handle, the
\* anchor body's position and every body's velocity and sleep state
\* unchanged.
C8_IdleMoveAndEndAreNoOps ==
  [][(last'.op \in MoveOps \cup EndOps /\ ~isDragging) =>
       /\ constraints' = constraints
       /\ jointConstraint' = jointConstraint
       /\ jointBody'.position = jointBody.position
       /\ body' = body
       /\ ~isDragging']_vars

\* an idle move or end has just run
C8_Witness ==
  /\ last.op \in MoveOps \cup EndOps
  /\ ~last.active
  /\ ~isDragging

\* C9: a pointer/touch move that reaches the drag plane while a drag is
\* active puts the anchor body at the world point and changes nothing else:
\* the constraint set, the handle and every body are as before.
C9_UpdateDragMovesOnlyAnchor ==
  [][(last'.op \in MoveOps /\ isDragging /\ last'.point # NoHit) =>
       /\ jointBody'.position = last'.point
       /\ constraints' = constraints
       /\ jointConstraint' = jointConstraint
       /\ body' = body
       /\ isDragging']_vars

\* an active move has just put the anchor at a point away from its target
C9_Witness ==
  /\ last.op \in MoveOps
  /\ last.active
  /\ last.point # NoHit
  /\ jointBody.position = last.point
  /\ HandleTarget # 0
  /\ body[HandleTarget].position # last.point

\* C10: right after a pointer-down or touch-start that hits a cube, that
\* cube is awake, also when it was asleep before.
C10_BeginDragWakesTarget ==
  (last.op \in BeginOps /\ last.cube # 0) =>
    body[last.cube].sleepState = AWAKE

\* a drag has just begun on a cube that was asleep
C10_Witness ==
  /\ last.op \in BeginOps
  /\ last.cube # 0
  /\ last.cube \in last.asleep
  /\ body[last.cube].sleepState = AWAKE

\* C11: while a cube is the target of the active drag constraint it is not
\* asleep after any step, however long the pointer is held still and
\* whichever cube is dragged.
C11_DragTargetStaysAwake ==
  (last.op = "animate" /\ isDragging) =>
    body[HandleTarget].sleepState # SLEEPING

Impulses == {InitialImpulse, PointerNudge, TouchNudge} \cup ReleaseImpulse

\* C14: for the two bodies of mass 0, the floor and the drag anchor,
\* applyImpulse leaves the body as it is and a step never changes its
\* position; the anchor's position changes only in a pointer-down or
\* touch-start that hits a cube and in a move made while dragging.
C14_StaticBodiesStay ==
  [][/\ floor' = floor
     /\ last'.op = "animate" => jointBody' = jointBody
     /\ jointBody'.position # jointBody.position =>
          \/ last'.op \in BeginOps /\ last'.cube # 0
          \/ last'.op \in MoveOps /\ isDragging /\ last'.point # NoHit
     /\ \A impulse \in Impulses, torque \in AngVels :
          /\ applyImpulse(jointBody', impulse, torque) = jointBody'
          /\ applyImpulse(floor', impulse, torque) = floor']_vars

\* a frame has just run during a drag whose anchor is above the floor
C14_Witness ==
  /\ last.op = "animate"
  /\ isDragging
  /\ jointBody.position # floor.position
  /\ jointBody.mass = 0

\* C15: the world's body set is the one built at setup in every reachable
\* state: the floor, the cubes and the one anchor body; every registered
\* constraint joins a cube of the set to that anchor.
C15_BodySetConstant ==
  /\ bodies = {FloorId} \cup Cubes \cup {JointId}
  /\ floor.id = FloorId
  /\ jointBody.id = JointId
  /\ \A c \in constraints : c.bodyA \in bodies /\ c.bodyB = JointId

\* a drag has just ended, its constraint is removed and its target and the
\* anchor are still in the world
C15_Witness ==
  /\ last.op \in EndOps
  /\ last.active
  /\ constraints = {}
  /\ last.cube \in bodies
  /\ jointBody.id \in bodies

\* C16: no failure raised while stepping the world leaves the frame
\* callback, on the desktop path and on the mobile path, the fallback
\* step's own failure included.
C16_StepNeverFailsOutward == last.op = "animate" => ~last.escaped

\* C17: when stepping raises a failure the step is retried exactly once,
\* and a retry that succeeds advances the world by one fixed time step.
C17_FallbackRetriesOnce ==
  (last.op = "animate" /\ "step" \in last.failed) =>
    /\ last.retries = 1
    /\ "fallback" \notin last.failed => last.steps = 1

\* C18: when the fallback step fails too, no failure leaves the callback, a
\* body is put to sleep with its velocity zeroed, and the next frame is
\* requested so that the other bodies go on being simulated.
C18_DoubleFailureSleepsBody ==
  (last.op = "animate" /\ "fallback" \in last.failed) =>
    /\ ~last.escaped
    /\ frameRequested
    /\ \E i \in Cubes :
         /\ body[i].sleepState = SLEEPING
         /\ body[i].velocity = 0
         /\ body[i].angularVelocity = 0

\* C19: the frame loop never halts: every execution of the frame callback
\* leaves the next frame requested, also when stepping raised a failure.
C19_NextFrameRequested == last.op = "animate" => frameRequested

\* C20: creating a cube at a position that is not a number raises an error
\* and leaves the world's body set as it was.
C20_MalformedInputRejected ==
  \A position \in {NaN} :
    /\ createCubeIn(position).raised
    /\ createCubeIn(position).bodies = bodies

\* the sub-step cap of the frame's step call: 4 passed on a mobile user
\* agent, the default on a desktop one
StepCap == IF isMobile THEN MobileMaxSubSteps ELSE DefaultMaxSubSteps

Touching(bi, bj) == bi.position = bj.position

\* C22: when a step has run, a contact between a cube and the floor is
\* resolved with the registered cube-floor rule (friction 0.8, restitution
\* 0.1), a contact between two cubes with the registered cube-cube rule
\* (friction 0.4, restitution 0.3), and the world's default rule is used
\* only for a pair that has no registered rule.
C22_RegisteredRuleUsed ==
  (last.op = "animate" /\ last.steps > 0) =>
    /\ \A i \in Cubes :
         Touching(body[i], floor) =>
           contactRule(createPhysicsWorld, body[i], floor)
             = cubeFloorContactMaterial
    /\ \A i, j \in Cubes :
         (i # j /\ Touching(body[i], body[j])) =>
           contactRule(createPhysicsWorld, body[i], body[j])
             = cubeCubeContactMaterial
    /\ contactRule(createPhysicsWorld, jointBody, floor)
         = defaultContactMaterial

\* the materials in the world: those of the registered rules and those of
\* the bodies
WorldMaterials ==
  UNION {cm.materials : cm \in createPhysicsWorld.contactmaterials}
    \cup {body[i].material : i \in Cubes}
    \cup {floor.material, jointBody.material}

C24_MeshMatchesBody ==
  (last.op = "animate" /\ ~last.escaped) =>
    \A i \in Cubes :
      /\ mesh[i].position = body[i].position
      /\ i \notin last.behind

\* C25: once the cleanup has run no frame is pending, the frame callback
\* does not run again and the world is not stepped again: the bodies and
\* the accumulator stay as the cleanup found them.
C25_NoFrameAfterCleanup ==
  /\ [](~mounted => ~frameRequested)
  /\ [][~mounted => /\ last'.op # "animate"
                     /\ body' = body
                     /\ accumulator' = accumulator]_vars

\* the cleanup has just run in the middle of a drag, with a cube still
\* moving
C25_Witness ==
  /\ ~mounted
  /\ last.op = "cleanup"
  /\ last.active
  /\ ~frameRequested
  /\ \E i \in Cubes : body[i].sleepState = AWAKE /\ body[i].velocity > 0

\* C26: once the cleanup has run the world holds no drag constraint,
\* whatever pointer and touch events came before it.
C26_NoConstraintAfterCleanup == ~mounted => constraints = {}

\* C27: right after a pointer-down or touch-start that hits cube `sel` at
\* `hitPoint`, the joint body is at the hit point, and the pivot that
\* addJointConstraint computes for the cube, mapped back to the world
\* through the cube's position and orientation, is the hit point too,
\* whatever the orientation of the cube and also off its centre.
C27_AnchorsCoincide ==
  [][\A sel \in Cubes, hitPoint \in Points :
       (\/ handlePointerDown(sel, hitPoint)
        \/ \E torque \in AngVels : handleTouchStart(sel, hitPoint, torque))
       => /\ jointBody'.position = hitPoint
          /\ \A quaternion \in 0 .. Turns - 1 :
               worldPivot(body'[sel], quaternion,
                          pivotOf(hitPoint, body[sel], quaternion))
                 = <<hitPoint, 0>>]_vars

\* a drag has just begun at a point that is not the centre of its cube
C27_Witness ==
  /\ last.op \in BeginOps
  /\ last.cube # 0
  /\ jointBody.position # body[last.cube].position
  /\ \E c \in constraints : c.bodyA = last.cube

\* C28: between handlers and frames the dragging flag is true exactly when
\* the held handle is non-null, so a move that reaches moveJoint (a drag is
\* active and the ray hits the drag plane) passes it a constraint.
C28_FlagMatchesHandle ==
  /\ [](isDragging <=> jointConstraint # 0)
  /\ [][(last'.op \in MoveOps /\ last'.point # NoHit) =>
          jointConstraint # 0]_vars

\* a move has just run moveJoint during a drag, with the handle's
\* constraint registered
C28_Witness ==
  /\ last.op \in MoveOps
  /\ last.point # NoHit
  /\ isDragging
  /\ \E c \in constraints : c.id = jointConstraint

\* the constraints that can be reached through the held handle
HandleSet == {c \in constraints : c.id = jointConstraint}

\* C29: while the component is mounted, the constraints registered in the
\* world are those reachable through the held handle: one when the handle
\* is non-null, none when it is null.
C29_NoOrphanedConstraint ==
  mounted =>
    /\ constraints = HandleSet
    /\ Cardinality(constraints) = IF jointConstraint # 0 THEN 1 ELSE 0

\* C30: between handlers the click marker is visible exactly when a drag
\* is active: visible after a pointer-down or touch-start that hits a cube
\* and after a move made while dragging, hidden after a pointer-up,
\* touch-end or touch-cancel.
C30_MarkerMatchesDrag ==
  /\ clickMarkerVisible <=> isDragging
  /\ (last.op \in BeginOps /\ last.cube # 0) => clickMarkerVisible
  /\ (last.op \in MoveOps /\ last.active) => clickMarkerVisible
  /\ last.op \in EndOps => ~clickMarkerVisible

\* a touch-cancel has just closed a drag and the marker is hidden
C30_Witness ==
  /\ last.op = "touchcancel"
  /\ last.active
  /\ ~clickMarkerVisible

====
